---- MODULE Spec2Model ----
(***************************************************************************)
(* A model of read.py of Git-Wrapped: the identity matcher is_me, the      *)
(* numstat parser parse_git_log, the language snapshot                     *)
(* get_current_languages, the session-gap estimator estimate_hours and the *)
(* aggregation loop of main.                                               *)
(*                                                                         *)
(* Text is modelled as a sequence of symbols (one-symbol strings), so that *)
(* lower(), strip() and the substring test are computed.  A file name is a *)
(* sequence of path components, each a sequence of dot-separated segments: *)
(* "src/app.min.js" is << <<"src">>, <<"app","min","js">> >>.  An ISO-8601 *)
(* date is [wall, off], both in seconds: the local wall-clock reading and  *)
(* its UTC offset.  A float number of hours is the exact fraction          *)
(* <<numerator, denominator>>.                                             *)
(***************************************************************************)
EXTENDS Integers, Sequences, FiniteSets, TLC

VARIABLES
    MY_EMAILS,        \* read.py:12  configured e-mail addresses
    MY_NAMES,         \* read.py:15  configured author names
    m_raw,            \* the author fields of the header the matcher was last run on
    m_name,           \* current_commit["name"] handed to is_me
    m_email,          \* current_commit["email"] handed to is_me
    m_result,         \* what is_me returned
    e_commits,        \* the argument of estimate_hours
    e_hours,          \* what estimate_hours returned for e_commits
    e_prev,           \* what it returned before the last timestamp was added
    stdout,           \* parse_git_log: result.stdout, as far as git has printed it
    current_commit,   \* parse_git_log: the commit being accumulated (None at first)
    commits,          \* parse_git_log: the commits accepted so far
    p_pc,             \* parse_git_log: "loop", "returned" or "raised"
    pc,               \* main: "loop" while repositories remain, then "done"
    repos,            \* main: the paths get_git_repos returned
    idx,              \* main: how many of them the for loop has processed
    git,              \* what git printed for each processed repository (log, ls-files)
    all_commits,      \* main: the flattened commits
    language_counts,  \* main: language -> tracked files
    repo_totals,      \* main: repository name -> matched commits
    export_data       \* main: the dataset written to OUTPUT_FILE (None until then)

cfgVars == <<MY_EMAILS, MY_NAMES>>
matchVars == <<m_raw, m_name, m_email, m_result>>
estVars == <<e_commits, e_hours, e_prev>>
parseVars == <<stdout, current_commit, commits, p_pc>>
mainVars == <<pc, repos, idx, git, all_commits, language_counts, repo_totals, export_data>>
vars == <<cfgVars, matchVars, estVars, parseVars, mainVars>>

\* Python's None, for the variables that otherwise hold a record.
None == [none |-> TRUE]

---------------------------------------------------------------------------
(* Text *)

\* str.lower() on one symbol.
LowerSym(c) ==
    CASE c = "A" -> "a"
      [] c = "X" -> "x"
      [] c = "PNG" -> "png"
      [] c = "Lock" -> "lock"
      [] OTHER -> c

\* str.lower()
Lower(s) == [i \in DOMAIN s |-> LowerSym(s[i])]

\* str.strip(): leading and trailing blanks removed.
RECURSIVE Strip(_)
Strip(s) ==
    IF s = <<>> THEN s
    ELSE IF Head(s) = " " THEN Strip(Tail(s))
    ELSE IF s[Len(s)] = " " THEN Strip(SubSeq(s, 1, Len(s) - 1))
    ELSE s

\* `sub in s` on strings: sub occurs in s as a contiguous run.
Contains(sub, s) ==
    \E i \in 0..(Len(s) - Len(sub)) : SubSeq(s, i + 1, i + Len(sub)) = sub

---------------------------------------------------------------------------
(* is_me *)

is_me(name, email) ==
    IF email \in MY_EMAILS \/ name \in MY_NAMES THEN TRUE
    ELSE \E my_id \in MY_EMAILS : Contains(my_id, email)

---------------------------------------------------------------------------
(* estimate_hours *)

SessionSeedSeconds == 3600
SessionGapSeconds == 7200
NewSessionSeconds == 3600
SecondsPerHour == 3600

\* datetime.fromisoformat of an offset-aware date: the instant, in seconds.
fromisoformat(d) == d.wall - d.off

\* sorted(): insertion of x into an ascending sequence, after its equals.
RECURSIVE InsertSorted(_, _)
InsertSorted(x, s) ==
    IF s = <<>> THEN <<x>>
    ELSE IF x < Head(s) THEN <<x>> \o s
    ELSE <<Head(s)>> \o InsertSorted(x, Tail(s))

RECURSIVE sorted(_)
sorted(s) == IF s = <<>> THEN <<>> ELSE InsertSorted(s[Len(s)], sorted(SubSeq(s, 1, Len(s) - 1)))

GapSecondsInclusive(diff) ==
    IF diff <= SessionGapSeconds THEN diff ELSE NewSessionSeconds

\* The body of the for loop of lines 235-240 for one difference.
GapSeconds(diff) ==
    IF diff < SessionGapSeconds THEN diff ELSE NewSessionSeconds

RECURSIVE SumGaps(_, _)
SumGaps(dates, i) ==
    IF i > Len(dates) THEN 0
    ELSE GapSeconds(dates[i] - dates[i - 1]) + SumGaps(dates, i + 1)

estimate_hours_unsorted(cs) ==
    IF cs = <<>> THEN <<0, 1>>
    ELSE LET dates == [i \in DOMAIN cs |-> fromisoformat(cs[i].date)]
         IN  <<SessionSeedSeconds + SumGaps(dates, 2), SecondsPerHour>>

estimate_hours(cs) ==
    IF cs = <<>> THEN <<0, 1>>
    ELSE LET dates == sorted([i \in DOMAIN cs |-> fromisoformat(cs[i].date)])
         IN  <<SessionSeedSeconds + SumGaps(dates, 2), SecondsPerHour>>

\* Fractions <<n, d>> with d > 0.
FracEq(a, b) == a[1] * b[2] = b[1] * a[2]
FracLeq(a, b) == a[1] * b[2] <= b[1] * a[2]

---------------------------------------------------------------------------
(* File names and the noise filter *)

IGNORE_EXTENSIONS ==
    { <<"lock">>, <<"svg">>, <<"map">>, <<"csv">>, <<"tsv">>, <<"min", "js">>,
      <<"min", "css">>, <<"jsonl">>, <<"ipynb">>, <<"png">>, <<"jpg">>, <<"jpeg">>,
      <<"gif">>, <<"ico">>, <<"webp">> }

IGNORE_EXACT_FILES ==
    { <<"package-lock", "json">>, <<"yarn", "lock">>, <<"pnpm-lock", "yaml">>,
      <<"composer", "lock">>, <<"Cargo", "lock">>, <<"Gemfile", "lock">>,
      <<"poetry", "lock">> }

\* The table of lines 20-55 as (extension, language) pairs.  Its key "dockerfile"
\* has no leading dot, which no result of os.path.splitext equals.
EXTENSIONS ==
    { <<<<"py">>, "Python">>, <<<<"js">>, "JavaScript">>, <<<<"ts">>, "TypeScript">>,
      <<<<"rs">>, "Rust">>, <<<<"html">>, "HTML">>, <<<<"css">>, "CSS">>,
      <<<<"scss">>, "CSS">>, <<<<"c">>, "C">>, <<<<"h">>, "C">>, <<<<"hpp">>, "C++">>,
      <<<<"cpp">>, "C++">>, <<<<"cc">>, "C++">>, <<<<"cu">>, "CUDA">>,
      <<<<"cuh">>, "CUDA">>, <<<<"java">>, "Java">>, <<<<"go">>, "Go">>,
      <<<<"rb">>, "Ruby">>, <<<<"php">>, "PHP">>, <<<<"sh">>, "Shell">>,
      <<<<"bash">>, "Shell">>, <<<<"zsh">>, "Shell">>, <<<<"md">>, "Markdown">>,
      <<<<"json">>, "JSON">>, <<<<"yaml">>, "YAML">>, <<<<"yml">>, "YAML">>,
      <<<<"sql">>, "SQL">>, <<<<"dockerfile">>, "Docker">>, <<<<"xml">>, "XML">>,
      <<<<"vue">>, "Vue">>, <<<<"jsx">>, "React">>, <<<<"tsx">>, "React">>,
      <<<<"toml">>, "TOML">>, <<<<"lua">>, "Lua">> }

\* os.path.basename: the last path component.
basename(path) == path[Len(path)]

\* The extension os.path.splitext returns, as the segments after its leading dot
\* (<<>> is no extension): what follows the last dot of the last component, unless
\* only dots precede that dot.
splitext(filename) ==
    LET comp == basename(filename)
    IN  IF Len(comp) >= 2 /\ \E i \in 1..(Len(comp) - 1) : comp[i] # ""
        THEN <<comp[Len(comp)]>>
        ELSE <<>>

\* The two `continue` tests of lines 168-174.
Ignored(filename) ==
    \/ basename(filename) \in IGNORE_EXACT_FILES
    \/ Lower(splitext(filename)) \in IGNORE_EXTENSIONS

\* int(): the numerals git prints, and what they denote.
IsInt(tok) == tok \in {"0", "1", "3", "5", "10"}
IntOf(tok) ==
    CASE tok = "0" -> 0
      [] tok = "1" -> 1
      [] tok = "3" -> 3
      [] tok = "5" -> 5
      [] tok = "10" -> 10

---------------------------------------------------------------------------
(* parse_git_log *)

\* A line of git's output is a record.  header: whether it starts with "HEADER|".
\* n: how many fields its split gives, line.split("|") for a header and
\* line.split(maxsplit=2) for any other line (0 for a blank line).  The fields
\* themselves: parts[1..4] of a header are hash, date, name, email; parts[0..2] of
\* another line are added, deleted, filename.  A field the line does not have holds
\* a filler that is never read.

\* Lines 160-181: one change record applied to the current commit.  A ValueError
\* of int() leaves the assignments made before it in place.
ApplyStat(cc, line) ==
    IF line.n < 3 THEN cc
    ELSE LET added == line.added
             deleted == line.deleted
             filename == line.filename
         IN  IF Ignored(filename) THEN cc
             ELSE IF added # "-" /\ ~IsInt(added) THEN cc
             ELSE LET c1 == IF added # "-"
                            THEN [cc EXCEPT !.additions = @ + IntOf(added)]
                            ELSE cc
                  IN  IF deleted # "-" /\ ~IsInt(deleted) THEN c1
                      ELSE LET c2 == IF deleted # "-"
                                     THEN [c1 EXCEPT !.deletions = @ + IntOf(deleted)]
                                     ELSE c1
                           IN  [c2 EXCEPT !.files = @ + 1]

SaveEvery(cc, cs) ==
    IF cc # None THEN Append(cs, cc) ELSE cs

\* Lines 142-144 and 186-187: the commit being accumulated is kept if it is mine.
Save(cc, cs) ==
    IF cc # None /\ is_me(cc.name, cc.email) THEN Append(cs, cc) ELSE cs

\* Lines 146-155.
NewCommit(line) ==
    [hash |-> line.hash, date |-> line.date, name |-> Strip(line.name),
     email |-> Lower(Strip(line.email)), additions |-> 0, deletions |-> 0, files |-> 0]

\* One iteration of the loop of lines 139-183 on the parser's state
\* [current_commit, commits, raised].  A header with fewer than five fields raises
\* IndexError at its first missing field, after the previous commit was saved.
ParseLine(ps, line) ==
    IF line.header
    THEN LET saved == Save(ps.current_commit, ps.commits)
         IN  IF line.n < 5
             THEN [ps EXCEPT !.commits = saved, !.raised = TRUE]
             ELSE [ps EXCEPT !.commits = saved, !.current_commit = NewCommit(line)]
    ELSE IF ps.current_commit # None /\ line.n > 0
    THEN [ps EXCEPT !.current_commit = ApplyStat(@, line)]
    ELSE ps

RECURSIVE ParseLines(_, _)
ParseLines(ps, lines) ==
    IF lines = <<>> \/ ps.raised THEN ps
    ELSE ParseLines(ParseLine(ps, Head(lines)), Tail(lines))

\* What parse_git_log returns on the output `lines`: the except clause of line 189
\* returns the commits appended before the error.
parse_git_log(lines) ==
    LET ps == ParseLines([current_commit |-> None, commits |-> <<>>, raised |-> FALSE], lines)
    IN  IF ps.raised THEN ps.commits ELSE Save(ps.current_commit, ps.commits)

---------------------------------------------------------------------------
(* get_current_languages *)

\* A dict is a function whose domain is its keys.
EmptyDict == [k \in {} |-> 0]

\* d[k] += n on a defaultdict(int).
Add(d, k, n) ==
    IF k \in DOMAIN d THEN [d EXCEPT ![k] = @ + n] ELSE (k :> n) @@ d

RECURSIVE CountLanguages(_, _)
CountLanguages(languages, files) ==
    IF files = <<>> THEN languages
    ELSE LET ext == Lower(splitext(Head(files)))
             hit == {e \in EXTENSIONS : e[1] = ext}
         IN  CountLanguages(
                 IF hit = {} THEN languages
                 ELSE Add(languages, (CHOOSE e \in hit : TRUE)[2], 1),
                 Tail(files))

\* What get_current_languages returns when `git ls-files` printed `files`.
get_current_languages(files) == CountLanguages(EmptyDict, files)

---------------------------------------------------------------------------
(* main *)

\* What the two git subprocesses of one repository give: spawn_fails when
\* subprocess.run itself raises (both calls then raise alike), else the lines of
\* `git log` and the file names of `git ls-files`.
RepoCommits(out) == IF out.spawn_fails THEN <<>> ELSE parse_git_log(out.log)
RepoLangs(out) == IF out.spawn_fails THEN EmptyDict ELSE get_current_languages(out.files)

\* Lines 264-270.
flat_commit(c, repo_name) ==
    [date |-> c.date, repo |-> repo_name, additions |-> c.additions,
     deletions |-> c.deletions, impact |-> c.additions + c.deletions]

\* Lines 275-276.
RECURSIVE AddAll(_, _, _)
AddAll(counts, langs, keys) ==
    IF keys = {} THEN counts
    ELSE LET k == CHOOSE x \in keys : TRUE
         IN  AddAll(Add(counts, k, langs[k]), langs, keys \ {k})

RecordTotalAlways(totals, repo_name, n) ==
    (repo_name :> n) @@ totals

\* Lines 278-279: a later repository of the same name overwrites the entry.
RecordTotal(totals, repo_name, n) ==
    IF n > 0 THEN (repo_name :> n) @@ totals ELSE totals

AppendNewestFirst(all, repo_name, cs) ==
    [i \in 1..Len(cs) |-> flat_commit(cs[i], repo_name)] \o all

\* Lines 262-271.
AppendFlat(all, repo_name, cs) ==
    all \o [i \in 1..Len(cs) |-> flat_commit(cs[i], repo_name)]

\* Lines 255-279: one iteration of the for loop, as new values of
\* <<all_commits, language_counts, repo_totals>>.
ProcessRepoResult(repo_path, out) ==
    LET repo_name == basename(repo_path)
        repo_commits == RepoCommits(out)
        repo_langs == RepoLangs(out)
    IN  <<AppendFlat(all_commits, repo_name, repo_commits),
          AddAll(language_counts, repo_langs, DOMAIN repo_langs),
          RecordTotal(repo_totals, repo_name, Len(repo_commits))>>

\* Lines 282-294.  generated_at, the clock reading, is left out.
Dataset ==
    [detailed_commits |-> all_commits,
     languages |-> language_counts,
     repos |-> repo_totals,
     total_hours_estimated |-> estimate_hours(all_commits)]

---------------------------------------------------------------------------
(* Inputs *)

MaxRepos == 2
MaxLines == 4
MaxTimestamps == 3

NameMe == <<"M">>
NameMePadded == <<"M", " ">>
NameBob == <<"B">>
EmailAX == <<"a", "@", "x">>
EmailUpper == <<"A", "@", "X">>
EmailPadded == <<" ", "a", "@", "x">>
EmailAXT == <<"a", "@", "x", ".", "t">>
EmailBY == <<"b", "@", "y">>

RawNames == {NameMe, NameMePadded, NameBob}
RawEmails == {EmailAX, EmailUpper, EmailPadded, EmailAXT, EmailBY, <<>>}

MainPy == << <<"src">>, <<"main", "py">> >>
Readme == << <<"README">> >>
LogoBin == << <<"logo", "bin">> >>
YarnLock == << <<"yarn", "lock">> >>
NestedPackageLock == << <<"web">>, <<"package-lock", "json">> >>
AppMinJs == << <<"app", "min", "js">> >>
PhotoPNG == << <<"photo", "PNG">> >>

D0 == [wall |-> 0, off |-> 0]
NoFile == << <<"">> >>

Line(header, n, hash, date, name, email, added, deleted, filename) ==
    [header |-> header, n |-> n, hash |-> hash, date |-> date, name |-> name,
     email |-> email, added |-> added, deleted |-> deleted, filename |-> filename]
Header(hash, date, author) ==
    Line(TRUE, 5, hash, date, author[1], author[2], "", "", NoFile)
\* A header line cut short: "HEADER|<hash>", fewer fields than parse_git_log indexes.
ShortHeader(hash) == Line(TRUE, 2, hash, D0, <<>>, <<>>, "", "", NoFile)
Stat(added, deleted, filename) ==
    Line(FALSE, 3, 0, D0, <<>>, <<>>, added, deleted, filename)
\* A line of two fields only.
TwoFields(added, deleted) == Line(FALSE, 2, 0, D0, <<>>, <<>>, added, deleted, NoFile)
Blank == Line(FALSE, 0, 0, D0, <<>>, <<>>, "", "", NoFile)

D10 == [wall |-> 600, off |-> 0]
\* 01:30+01:00, the instant of 00:30+00:00.
D30 == [wall |-> 5400, off |-> 3600]

Mine == <<NameBob, EmailUpper>>
MineByName == <<NameMePadded, EmailBY>>
Other == <<NameBob, EmailBY>>

\* The lines parse_git_log is fed one at a time; a header's hash is its line number.
ParseInputLines(n) ==
    { Header(n, D0, Mine), Header(n, D0, MineByName), Header(n, D0, Other), ShortHeader(n),
      Stat("10", "5", MainPy), Stat("-", "-", LogoBin), Stat("3", "x", MainPy),
      Stat("x", "3", MainPy), Stat("10", "5", YarnLock), Stat("1", "1", NestedPackageLock),
      Stat("10", "5", AppMinJs), Stat("10", "5", PhotoPNG),
      TwoFields("10", "5"), Blank }

\* The histories main is run on: at most two commits, most recent first.
Blocks ==
    { <<Header(0, D30, Mine)>>,
      <<Header(0, D0, Mine), Stat("10", "5", MainPy)>>,
      <<Header(0, D10, Other), Stat("3", "1", MainPy)>>,
      <<ShortHeader(0)>> }
RepoLogs == {<<>>} \cup Blocks \cup {a \o b : a \in Blocks, b \in Blocks}
\* What `git ls-files` prints in every repository: one Python file among others.
TrackedFiles == <<MainPy, Readme, PhotoPNG>>
GitOutputs ==
    {[spawn_fails |-> TRUE, log |-> <<>>, files |-> <<>>]}
    \cup {[spawn_fails |-> FALSE, log |-> l, files |-> TrackedFiles] : l \in RepoLogs}

\* The repository roots get_git_repos can return: no root lies inside another.
Paths == { <<"dev", "A">>, <<"dev", "B">>, <<"old", "A">> }

\* The directories below ROOT_DIR, as paths relative to it; a file system is the set
\* of those that hold a ".git" entry.
Directories ==
    { <<"dev">>, <<"dev", "A">>, <<"dev", "A", "sub">>, <<"dev", "B">>,
      <<"old">>, <<"old", "A">>, <<"node_modules">>, <<"node_modules", "C">> }

\* Lines 67-77.
SKIP_DIRS ==
    {".git", "node_modules", "venv", "target", "dist", "build", "vendor", "deps",
     "__pycache__"}

Children(dir) ==
    {d \in Directories : Len(d) = Len(dir) + 1 /\ SubSeq(d, 1, Len(dir)) = dir}

\* The orders in which os.walk may list the directories of a set.
Orders(S) ==
    {p \in [1..Cardinality(S) -> S] : \A i, j \in DOMAIN p : i # j => p[i] # p[j]}

\* Lines 61-79: what the walk appends from dir downwards, one list for every order
\* of listing.  A directory with ".git" is recorded and not descended into; below
\* any other, the directories named in SKIP_DIRS are dropped.
RECURSIVE Walk(_, _), WalkEach(_, _, _)
Walk(dir, marked) ==
    IF dir \in marked THEN {<<dir>>}
    ELSE LET kids == {d \in Children(dir) : basename(d) \notin SKIP_DIRS}
         IN  UNION {WalkEach(p, 1, marked) : p \in Orders(kids)}
WalkEach(p, i, marked) ==
    IF i > Len(p) THEN {<<>>}
    ELSE {a \o b : a \in Walk(p[i], marked), b \in WalkEach(p, i + 1, marked)}

\* The lists get_git_repos can return on the file system `marked`.
get_git_repos(marked) == Walk(<<>>, marked)

\* File systems of at most MaxRepos repositories among Paths, with a repository in
\* node_modules and, inside dev/A when that is one, a nested repository.
FileSystems ==
    { M \cup {<<"node_modules", "C">>}
        \cup {d \o <<"sub">> : d \in M \cap {<<"dev", "A">>}} :
      M \in {X \in SUBSET Paths : Cardinality(X) <= MaxRepos} }

RepoLists == UNION {get_git_repos(fs) : fs \in FileSystems}

Instants == {0, 1800, 3600, 6600, 7199, 7200, 18000}
Dates == {[wall |-> w + o, off |-> o] : w \in Instants, o \in {0, 3600}}

---------------------------------------------------------------------------
(* Specifications *)

ConfigDefault == MY_EMAILS = {EmailAX} /\ MY_NAMES = {NameMe}
MatchIdle == m_raw = <<>> /\ m_name = <<>> /\ m_email = <<>> /\ m_result = FALSE
EstimateIdle == e_commits = <<>> /\ e_hours = estimate_hours(<<>>) /\ e_prev = estimate_hours(<<>>)
ParseIdle == stdout = <<>> /\ current_commit = None /\ commits = <<>> /\ p_pc = "loop"
MainIdle ==
    /\ pc = "loop" /\ repos = <<>> /\ idx = 0 /\ git = <<>>
    /\ all_commits = <<>> /\ language_counts = EmptyDict /\ repo_totals = EmptyDict
    /\ export_data = None

\* -- the identity matcher, under every configuration
InitMatch ==
    /\ MY_EMAILS \in SUBSET {EmailAX, EmailUpper, EmailBY}
    /\ MY_NAMES \in SUBSET {NameMe}
    /\ MatchIdle /\ EstimateIdle /\ ParseIdle /\ MainIdle

\* parse_git_log lines 143-151: the author of a header, stored and matched.
MatchHeader(rawName, rawEmail) ==
    /\ m_raw' = <<rawName, rawEmail>>
    /\ m_name' = Strip(rawName)
    /\ m_email' = Lower(Strip(rawEmail))
    /\ m_result' = is_me(Strip(rawName), Lower(Strip(rawEmail)))
    /\ UNCHANGED <<cfgVars, estVars, parseVars, mainVars>>

NextMatch == \E n \in RawNames, e \in RawEmails : MatchHeader(n, e)
SpecMatch == InitMatch /\ [][NextMatch]_vars

\* -- estimate_hours, on a collection growing by one timestamp at any position
InitEstimate == ConfigDefault /\ MatchIdle /\ EstimateIdle /\ ParseIdle /\ MainIdle

Estimate(d, k) ==
    /\ Len(e_commits) < MaxTimestamps
    /\ k \in 0..Len(e_commits)
    /\ e_commits' = SubSeq(e_commits, 1, k) \o <<[date |-> d]>>
                     \o SubSeq(e_commits, k + 1, Len(e_commits))
    /\ e_hours' = estimate_hours(e_commits')
    /\ e_prev' = e_hours
    /\ UNCHANGED <<cfgVars, matchVars, parseVars, mainVars>>

NextEstimate == \E d \in Dates, k \in 0..MaxTimestamps : Estimate(d, k)
SpecEstimate == InitEstimate /\ [][NextEstimate]_vars

\* -- parse_git_log, one line of git's output at a time
InitParse == ConfigDefault /\ MatchIdle /\ EstimateIdle /\ ParseIdle /\ MainIdle

ReadLine(line) ==
    /\ p_pc = "loop"
    /\ Len(stdout) < MaxLines
    /\ LET ps == ParseLine([current_commit |-> current_commit, commits |-> commits,
                            raised |-> FALSE], line)
       IN  /\ current_commit' = ps.current_commit
           /\ commits' = ps.commits
           /\ p_pc' = IF ps.raised THEN "raised" ELSE "loop"
    /\ stdout' = Append(stdout, line)
    /\ UNCHANGED <<cfgVars, matchVars, estVars, mainVars>>

\* Lines 185-192: the output is exhausted.
EndOfOutput ==
    /\ p_pc = "loop"
    /\ commits' = Save(current_commit, commits)
    /\ p_pc' = "returned"
    /\ UNCHANGED <<stdout, current_commit, cfgVars, matchVars, estVars, mainVars>>

\* After the except clause has ended the loop, what git printed further is never read.
LeaveUnread(line) ==
    /\ p_pc = "raised"
    /\ Len(stdout) < MaxLines
    /\ stdout' = Append(stdout, line)
    /\ UNCHANGED <<current_commit, commits, p_pc, cfgVars, matchVars, estVars, mainVars>>

NextParse ==
    \/ \E line \in ParseInputLines(Len(stdout) + 1) : ReadLine(line)
    \/ \E line \in ParseInputLines(Len(stdout) + 1) : LeaveUnread(line)
    \/ EndOfOutput
SpecParse == InitParse /\ [][NextParse]_vars

\* -- main
Init ==
    /\ ConfigDefault /\ MatchIdle /\ EstimateIdle /\ ParseIdle
    /\ pc = "loop" /\ repos \in RepoLists /\ idx = 0 /\ git = <<>>
    /\ all_commits = <<>> /\ language_counts = EmptyDict /\ repo_totals = EmptyDict
    /\ export_data = None

ProcessRepo(out) ==
    /\ pc = "loop"
    /\ idx < Len(repos)
    /\ LET r == ProcessRepoResult(repos[idx + 1], out)
       IN  /\ all_commits' = r[1]
           /\ language_counts' = r[2]
           /\ repo_totals' = r[3]
    /\ git' = Append(git, out)
    /\ idx' = idx + 1
    /\ UNCHANGED <<pc, repos, export_data, cfgVars, matchVars, estVars, parseVars>>

Finish ==
    /\ pc = "loop"
    /\ idx = Len(repos)
    /\ export_data' = Dataset
    /\ pc' = "done"
    /\ UNCHANGED <<repos, idx, git, all_commits, language_counts, repo_totals,
                   cfgVars, matchVars, estVars, parseVars>>

Next ==
    \/ \E out \in GitOutputs : ProcessRepo(out)
    \/ Finish
Spec == Init /\ [][Next]_vars

---------------------------------------------------------------------------
(* What the claims speak of, stated without the code's own loops *)

Instant(d) == d.wall - d.off
InstantsOf(cs) == [i \in DOMAIN cs |-> Instant(cs[i].date)]
Range(s) == {s[i] : i \in DOMAIN s}

IsAscending(s) == \A i, j \in DOMAIN s : i < j => s[i] <= s[j]
\* The timestamps ts in ascending order: the k-th is the value with fewer than k
\* timestamps below it and at least k not above it.
Ascending(ts) ==
    [k \in 1..Len(ts) |->
        CHOOSE v \in Range(ts) :
            /\ Cardinality({i \in DOMAIN ts : ts[i] < v}) < k
            /\ k <= Cardinality({i \in DOMAIN ts : ts[i] <= v})]

\* A gap under two hours counts itself, any other gap one hour.
RECURSIVE ClaimedGapSeconds(_, _)
ClaimedGapSeconds(asc, i) ==
    IF i >= Len(asc) THEN 0
    ELSE (IF asc[i + 1] - asc[i] < 2 * 3600 THEN asc[i + 1] - asc[i] ELSE 3600)
         + ClaimedGapSeconds(asc, i + 1)

\* The session-gap estimate of the timestamps ts, in hours.
ClaimedHours(ts) ==
    IF ts = <<>> THEN <<0, 1>>
    ELSE <<3600 + ClaimedGapSeconds(Ascending(ts), 1), 3600>>

Abs(x) == IF x < 0 THEN -x ELSE x

\* C1: estimate_hours returns 0 for no commits and otherwise one hour plus, for each
\* pair of consecutive timestamps in ascending order, the gap itself when it is under
\* two hours and one hour when it is two hours or more, whatever the input order;
\* estimate([t]) = 1, estimate([t, t+30min]) = 1.5, estimate([t, t+5h]) = 2,
\* estimate([t, t+2h]) = 2 and estimate([t, t+1h, t+1h50min]) = 17/6.
C1_EstimateIsSessionGapSum ==
    LET ts == InstantsOf(e_commits)
    IN  /\ FracEq(e_hours, ClaimedHours(ts))
        /\ ts = <<>> => e_hours[1] = 0
        /\ Len(ts) = 1 => FracEq(e_hours, <<1, 1>>)
        /\ Len(ts) = 2 /\ Abs(ts[1] - ts[2]) = 1800 => FracEq(e_hours, <<3, 2>>)
        /\ Len(ts) = 2 /\ Abs(ts[1] - ts[2]) = 5 * 3600 => FracEq(e_hours, <<2, 1>>)
        /\ Len(ts) = 2 /\ Abs(ts[1] - ts[2]) = 2 * 3600 => FracEq(e_hours, <<2, 1>>)
        /\ (Len(ts) = 3 /\ \E t \in Range(ts) : Range(ts) = {t, t + 3600, t + 6600})
               => FracEq(e_hours, <<17, 6>>)

\* t, t+1h50min, t+1h were given, out of order, and 17/6 hours came back.
C1_Witness ==
    /\ Len(e_commits) = 3
    /\ LET ts == InstantsOf(e_commits)
       IN  ts[2] = ts[1] + 6600 /\ ts[3] = ts[1] + 3600
    /\ e_hours = <<10200, 3600>>

\* C10: adding a timestamp to a collection never lowers the estimate.
C10_MonotonicInCommitCount == FracLeq(e_prev, e_hours)

\* A timestamp strictly between two others was added last and the estimate stayed
\* what it was; and a timestamp before all others was added and it grew.
C10_Witness ==
    /\ Len(e_commits) = 3
    /\ LET ts == InstantsOf(e_commits)
       IN  ts[1] < ts[2] /\ ts[2] < ts[3]
    /\ FracEq(e_prev, e_hours)
    /\ e_hours[1] > 3600

\* Case-insensitive equality and containment of e-mail addresses.
ClaimedMatch(name, email) ==
    \/ \E e \in MY_EMAILS : Lower(e) = Lower(email)
    \/ name \in MY_NAMES
    \/ \E e \in MY_EMAILS : Contains(Lower(e), Lower(email))

\* C4: the identity matcher is true exactly when the e-mail equals a configured
\* e-mail compared case-insensitively, or the name equals a configured name, or the
\* e-mail contains a configured e-mail; a configured e-mail written in upper case
\* still matches the same address in a commit.
C4_MatcherAsClaimed ==
    m_raw # <<>> => (m_result <=> ClaimedMatch(Strip(m_raw[1]), Strip(m_raw[2])))

---------------------------------------------------------------------------
(* Claims about parse_git_log *)

\* The header that opened the commit being accumulated, as a line number of stdout.
LastHeader ==
    LET hs == {i \in DOMAIN stdout : stdout[i].header}
    IN  IF hs = {} THEN 0 ELSE CHOOSE i \in hs : \A j \in hs : j <= i

\* The file's base name is a lock file's, or ends, case-insensitively, in a dot and
\* an ignored extension.
ClaimedIgnored(filename) ==
    LET comp == Lower(basename(filename))
    IN  \/ basename(filename) \in IGNORE_EXACT_FILES
        \/ \E ext \in IGNORE_EXTENSIONS :
               /\ Len(comp) > Len(ext)
               /\ SubSeq(comp, Len(comp) - Len(ext) + 1, Len(comp)) = ext

\* C5: a file whose base name is in the ignore-basename set or whose extension is in
\* the ignore-extension set (app.min.js among them) adds nothing to its commit: a
\* commit that so far touched only such files has additions, deletions and files 0.
C5_IgnoredFilesAddNothing ==
    (/\ p_pc = "loop"
     /\ current_commit # None
     /\ \A i \in (LastHeader + 1)..Len(stdout) :
            stdout[i].n = 3 => ClaimedIgnored(stdout[i].filename))
    => /\ current_commit.additions = 0
       /\ current_commit.deletions = 0
       /\ current_commit.files = 0

NumberOrDash(tok) == tok = "-" \/ IsInt(tok)

\* A change record of a file that is not filtered, with a field that is neither a
\* number nor "-".
Malformed(line) ==
    /\ ~line.header
    /\ line.n = 3
    /\ ~Ignored(line.filename)
    /\ ~NumberOrDash(line.added) \/ ~NumberOrDash(line.deleted)

\* C6: reading a malformed change record leaves the current commit's additions,
\* deletions and files exactly as they were, also when only its second field is
\* unparsable, and the loop goes on.
C6_MalformedLineDiscarded ==
    [][(/\ p_pc = "loop"
        /\ current_commit # None
        /\ Len(stdout') = Len(stdout) + 1
        /\ Malformed(stdout'[Len(stdout')]))
       => (current_commit' = current_commit /\ p_pc' = "loop")]_vars


\* A header line with all its fields whose author the identity matcher accepts.
HeaderMatches(line) ==
    line.header /\ line.n = 5 /\ is_me(Strip(line.name), Lower(Strip(line.email)))

\* The commit of the header at line i, with the change records that follow it up to
\* the next header.
RECURSIVE OwnStats(_, _, _)
OwnStats(cc, lines, j) ==
    IF j > Len(lines) \/ lines[j].header THEN cc
    ELSE OwnStats(IF lines[j].n > 0 THEN ApplyStat(cc, lines[j]) ELSE cc, lines, j + 1)
CommitAt(lines, i) == OwnStats(NewCommit(lines[i]), lines, i + 1)

\* The commits of a history whose author matches, in the history's order.
RECURSIVE MatchingCommits(_, _)
MatchingCommits(lines, i) ==
    IF i > Len(lines) THEN <<>>
    ELSE (IF HeaderMatches(lines[i]) THEN <<CommitAt(lines, i)>> ELSE <<>>)
         \o MatchingCommits(lines, i + 1)

WellFormed(lines) == \A i \in DOMAIN lines : lines[i].header => lines[i].n = 5

---------------------------------------------------------------------------
(* Claims about main *)

\* The part of a log read before a header line that lacks fields ends the parse.
Readable(log) ==
    LET short == {i \in DOMAIN log : log[i].header /\ log[i].n < 5}
    IN  IF short = {} THEN log
        ELSE SubSeq(log, 1, (CHOOSE i \in short : \A j \in short : i <= j) - 1)

\* The matched commits repository i contributes.
Contributed(out) ==
    IF out.spawn_fails THEN <<>> ELSE MatchingCommits(Readable(out.log), 1)

\* They, flattened, for the repositories from the i-th on, in processing order.
RECURSIVE ClaimedDetailed(_)
ClaimedDetailed(i) ==
    IF i > Len(git) THEN <<>>
    ELSE LET cs == Contributed(git[i])
         IN  [k \in 1..Len(cs) |->
                 [date |-> cs[k].date, repo |-> repos[i][Len(repos[i])],
                  additions |-> cs[k].additions, deletions |-> cs[k].deletions,
                  impact |-> cs[k].additions + cs[k].deletions]]
             \o ClaimedDetailed(i + 1)

\* C2: total_hours_estimated is the session-gap estimate of the one timeline merged
\* from the matched commits of all repositories; two repositories with one matched
\* commit each, 30 minutes apart, give 1.5 hours; other authors' commits add nothing.
C2_TotalHoursOverMergedTimeline ==
    pc = "done" =>
        /\ FracEq(export_data.total_hours_estimated,
                  ClaimedHours(InstantsOf(ClaimedDetailed(1))))
        /\ (/\ Len(git) = 2
            /\ Len(Contributed(git[1])) = 1
            /\ Len(Contributed(git[2])) = 1
            /\ Abs(Instant(Contributed(git[1])[1].date)
                   - Instant(Contributed(git[2])[1].date)) = 1800)
           => FracEq(export_data.total_hours_estimated, <<3, 2>>)

\* Two repositories, the first with the later commit, one of them also holding a
\* commit of another author: 1.5 hours.
C2_Witness ==
    /\ pc = "done"
    /\ Len(git) = 2
    /\ Len(Contributed(git[1])) = 1
    /\ Len(Contributed(git[2])) = 1
    /\ Instant(Contributed(git[1])[1].date) = Instant(Contributed(git[2])[1].date) + 1800
    /\ \E i \in DOMAIN git[2].log : git[2].log[i].header /\ ~HeaderMatches(git[2].log[i])
    /\ export_data.total_hours_estimated = <<5400, 3600>>

\* C3 as stated: detailed_commits is sorted by timestamp ascending.
C3_DetailedCommitsSorted ==
    pc = "done" => IsAscending(InstantsOf(export_data.detailed_commits))

\* C3 amended: detailed_commits lists the repositories in the order they were
\* processed and, within a repository, its matched commits in the order of its
\* history, most recent first.
C3_DetailedCommitsInProcessingOrder ==
    /\ all_commits = ClaimedDetailed(1)
    /\ pc = "done" => export_data.detailed_commits = ClaimedDetailed(1)

\* A dataset whose commits are not in ascending order of time.
C3_Witness ==
    /\ pc = "done"
    /\ Len(export_data.detailed_commits) >= 2
    /\ ~IsAscending(InstantsOf(export_data.detailed_commits))


\* History extraction failed: the process could not be run, or a header line of its
\* output lacks fields, which raises while the output is processed.
ExtractionFailed(out) ==
    out.spawn_fails \/ \E i \in DOMAIN out.log : out.log[i].header /\ out.log[i].n < 5

\* C7: a repository whose history extraction fails adds no commit to
\* detailed_commits, no entry to repos and no language entry, and main goes on.
C7_FailedRepoContributesNothing ==
    [][(Len(git') = Len(git) + 1 /\ ExtractionFailed(git'[Len(git')]))
       => /\ all_commits' = all_commits
          /\ repo_totals' = repo_totals
          /\ language_counts' = language_counts
          /\ pc' = "loop"]_vars

RepoName(i) == repos[i][Len(repos[i])]
Count(d, k) == IF k \in DOMAIN d THEN d[k] ELSE 0

\* The tracked files of language lang over the repositories from the i-th on.
RECURSIVE SnapshotTotal(_, _)
SnapshotTotal(lang, i) ==
    IF i > Len(git) THEN 0
    ELSE Count(RepoLangs(git[i]), lang) + SnapshotTotal(lang, i + 1)

\* C8: repos has an entry for a name exactly when a repository of that name produced
\* a matched commit, no value in it is zero, and the language snapshot of every
\* repository, also of one without matched commits, is in the language counts; with
\* two matched commits in A and one commit of another author in B, repos = {A: 2}
\* and detailed_commits has length 2.
C8_ReposHoldsOnlyMatchedRepositories ==
    /\ DOMAIN repo_totals = {RepoName(i) : i \in {j \in 1..Len(git) : Len(Contributed(git[j])) > 0}}
    /\ \A n \in DOMAIN repo_totals : repo_totals[n] >= 1
    /\ \A lang \in DOMAIN language_counts \cup {"Python"} :
           Count(language_counts, lang) = SnapshotTotal(lang, 1)
    /\ (/\ pc = "done"
        /\ Len(git) = 2
        /\ RepoName(1) = "A" /\ RepoName(2) = "B"
        /\ Len(Contributed(git[1])) = 2
        /\ ~git[2].spawn_fails
        /\ Cardinality({i \in DOMAIN git[2].log : git[2].log[i].header}) = 1
        /\ Contributed(git[2]) = <<>>)
       => /\ export_data.repos = ("A" :> 2)
          /\ Len(export_data.detailed_commits) = 2

\* A has two matched commits, B one commit of another author and a tracked Python
\* file: B is absent from repos and its file is counted.
C8_Witness ==
    /\ pc = "done"
    /\ Len(git) = 2
    /\ RepoName(1) = "A" /\ RepoName(2) = "B"
    /\ Len(Contributed(git[1])) = 2
    /\ git[2].log = <<Header(0, D10, Other), Stat("3", "1", MainPy)>>
    /\ export_data.repos = ("A" :> 2)
    /\ Len(export_data.detailed_commits) = 2
    /\ export_data.languages = ("Python" :> 2)

\* How many entries of detailed_commits carry the repository name n.
EntriesOf(n) ==
    Cardinality({i \in DOMAIN export_data.detailed_commits :
                     export_data.detailed_commits[i].repo = n})

RECURSIVE SumOf(_, _)
SumOf(d, keys) ==
    IF keys = {} THEN 0
    ELSE LET k == CHOOSE x \in keys : TRUE IN d[k] + SumOf(d, keys \ {k})

\* C11: repos is consistent with detailed_commits, also when two repositories at
\* different paths share their final path segment: repos[n] is the number of
\* detailed_commits entries whose repo is n, for every name n, and the values of
\* repos add up to the length of detailed_commits.
C11_ReposConsistentWithDetailedCommits ==
    pc = "done" =>
        /\ \A n \in DOMAIN export_data.repos \cup {RepoName(i) : i \in 1..Len(repos)} :
               Count(export_data.repos, n) = EntriesOf(n)
        /\ SumOf(export_data.repos, DOMAIN export_data.repos)
               = Len(export_data.detailed_commits)

====
